---- MODULE Spec2Model ----
(***************************************************************************)
(* Model of the mention-driven mint orchestrator of                        *)
(* cdp-langchain/examples/chatbot-python/chatbot.py: the durable mention   *)
(* memory (MentionMemory), the admission pipeline (process_tweet), the     *)
(* mint executor (process_mint_request, get_transaction_data) and the      *)
(* polling scheduler (run_autonomous_mode).                                *)
(*                                                                         *)
(* Tweet ids are the positions 1..Len(feed) of the mentions in the feed;   *)
(* the code holds them as decimal strings and compares them with int().    *)
(* The id 0 stands for last_tweet_id = None.  Every mention of the feed    *)
(* carries an id, a text, an author_id and an author_username, as the      *)
(* account_mentions action requests them (expansions = author_id).         *)
(***************************************************************************)
EXTENDS Integers, Sequences, FiniteSets, TLC

\* ---------------------------------------------------------------- bounds
MaxTweets == 2
MaxFaults == 1
MaxWords == 3

\* ------------------------------------------------------ program constants
REPUTATION_THRESHOLD == 20
TX_MAX_RETRIES == 4
MAX_RESULTS == 10
REP_MAX_RETRIES == 2

None == "None"
ADMIN_ID == "admin"
Authors == {ADMIN_ID, "u1", "u2"}

\* ------------------------------------------------------------- addresses
\* An address literal is 0x followed by 40 hex digits.  Two accounts (a, b)
\* are modelled, each in its EIP-55 checksum spelling, in lower case, and
\* (for a) in a mixed-case spelling whose checksum is wrong.
AddrChecksumA == "0xAa"
AddrLowerA == "0xaa"
AddrBadMixA == "0xaA"
AddrChecksumB == "0xBb"
AddrLowerB == "0xbb"
Addresses == {AddrChecksumA, AddrLowerA, AddrBadMixA, AddrChecksumB, AddrLowerB}

\* str.lower() on an address literal
Lower(a) ==
    CASE a \in {AddrChecksumA, AddrLowerA, AddrBadMixA} -> AddrLowerA
      [] a \in {AddrChecksumB, AddrLowerB} -> AddrLowerB
      [] OTHER -> a

\* eth_utils.is_address: a hex address in one case is accepted as it is, a
\* mixed-case one only when its checksum is right.
is_address(a) == a \in {AddrChecksumA, AddrLowerA, AddrChecksumB, AddrLowerB}

\* ----------------------------------------------------------------- texts
\* A tweet text is a sequence of whitespace-separated words.
\*   kind "at"   : @handle      kind "addr" : contains 0x + 40 hex digits
\*   kind "ens"  : ends in .eth kind "word" : anything else
Tok(k, v) == [kind |-> k, v |-> v]
BotTag == Tok("at", "XoninNFT")
EnsName == "name.eth"
TextNone == <<BotTag, Tok("word", "gm")>>
TextChecksumA == <<BotTag, Tok("word", "mint"), Tok("addr", AddrChecksumA)>>
TextLowerA == <<BotTag, Tok("addr", AddrLowerA)>>
TextBadMixA == <<BotTag, Tok("word", "mint"), Tok("addr", AddrBadMixA)>>
TextEns == <<BotTag, Tok("word", "mint"), Tok("ens", EnsName)>>

Tweet(a, t) == [author_id |-> a, text |-> t]

\* The mentions the feed draws from: two requesters and the admin; one
\* account in two spellings, a second account behind a name, a literal
\* that is no address, and a text with no literal.
MentionKinds ==
    { Tweet("u1", TextLowerA), Tweet("u2", TextChecksumA), Tweet("u1", TextEns),
      Tweet(ADMIN_ID, TextChecksumA), Tweet("u2", TextBadMixA),
      Tweet(ADMIN_ID, TextNone) }

\* resolve_ens: the resolver answers with an address (in checksum spelling)
\* or with nothing (unknown name, or the lookup raised).
EnsAnswers == {None, AddrChecksumB}

resolve_ens(domain, answer) ==
    IF answer = None THEN <<None, None>> ELSE <<answer, domain>>

RECURSIVE LeadingMentions(_, _)
\* number of leading words of the text that start with @
LeadingMentions(words, i) ==
    IF i <= Len(words) /\ words[i].kind = "at"
    THEN LeadingMentions(words, i + 1)
    ELSE i - 1

RECURSIVE FirstOfKind(_, _, _)
\* re.search(pattern, actual_message): position of the first word that
\* matches the pattern, 0 when none does
FirstOfKind(words, kind, i) ==
    IF i > Len(words) THEN 0
    ELSE IF words[i].kind = kind THEN i
    ELSE FirstOfKind(words, kind, i + 1)

Patterns == <<"addr", "ens">>

RECURSIVE SearchPatterns(_, _, _)
SearchPatterns(msg, p, answer) ==
    IF p > Len(Patterns) THEN [address |-> None, domain |-> None, status |-> None]
    ELSE LET m == FirstOfKind(msg, Patterns[p], 1) IN
         IF m = 0 THEN SearchPatterns(msg, p + 1, answer)
         ELSE LET literal == msg[m].v IN
              IF msg[m].kind = "ens"
              THEN LET r == resolve_ens(literal, answer) IN
                   IF r[1] = None
                   THEN [address |-> literal, domain |-> r[2], status |-> "invalid_address"]
                   ELSE IF ~is_address(r[1])
                        THEN [address |-> r[1], domain |-> r[2], status |-> "invalid_address"]
                        ELSE [address |-> r[1], domain |-> r[2], status |-> "valid"]
              ELSE IF ~is_address(literal)
                   THEN [address |-> literal, domain |-> None, status |-> "invalid_address"]
                   ELSE [address |-> literal, domain |-> None, status |-> "valid"]

is_valid_mint_request_with_feedback(tweet_text, answer) ==
    LET message_start == LeadingMentions(tweet_text, 1)
        actual_message == SubSeq(tweet_text, message_start + 1, Len(tweet_text))
    IN  SearchPatterns(actual_message, 1, answer)

\* ---------------------------------------------------------- MentionMemory
TweetIds == 1..MaxTweets

\* self.memory as __init__ sets it; last_tweet_id 0 is None
FreshMemory == [mentions |-> [i \in {} |-> None], last_tweet_id |-> 0]

\* The state file MENTION_MEMORY_FILE: absent, holding a JSON document, or
\* holding text that json.load rejects (open(..., 'w') truncates the file
\* before json.dump writes it).
NoFile == [state |-> "absent", data |-> FreshMemory]
CorruptFile == [state |-> "corrupt", data |-> FreshMemory]

\* load_memory answering an unreadable file with an empty ledger but a
\* checkpoint at the newest id instead of None
load_memory_keeping_checkpoint(f) ==
    IF f.state = "ok" THEN f.data
    ELSE IF f.state = "corrupt" THEN [FreshMemory EXCEPT !.last_tweet_id = MaxTweets]
    ELSE FreshMemory

load_memory(f) ==
    IF f.state = "ok" THEN f.data ELSE FreshMemory

save_memory(mem) == [state |-> "ok", data |-> mem]

is_processed(mem, tweet_id) == tweet_id \in DOMAIN mem.mentions

\* max(int(tweet["id"]) for tweet in tweets)
RECURSIVE MaxId(_, _)
MaxId(tweets, i) ==
    IF i > Len(tweets) THEN 0
    ELSE LET rest == MaxId(tweets, i + 1) IN
         IF tweets[i] > rest THEN tweets[i] ELSE rest

\* update_last_tweet_id looking only at the tweets that have a ledger entry
update_last_tweet_id_ledgered_only(mem, tweets) ==
    LET kept == SelectSeq(tweets, LAMBDA t : t \in DOMAIN mem.mentions) IN
    IF Len(kept) = 0 THEN mem
    ELSE LET newest_id == MaxId(kept, 1) IN
         IF mem.last_tweet_id = 0 \/ newest_id > mem.last_tweet_id
         THEN [mem EXCEPT !.last_tweet_id = newest_id]
         ELSE mem

update_last_tweet_id(mem, tweets) ==
    IF Len(tweets) = 0 THEN mem
    ELSE LET newest_id == MaxId(tweets, 1) IN
         IF mem.last_tweet_id = 0 \/ newest_id > mem.last_tweet_id
         THEN [mem EXCEPT !.last_tweet_id = newest_id]
         ELSE mem

\* The arguments of one add_mention call.  tx_hash and reply_id are kept as
\* "present or not"; minted_address is the literal or None.
MentionArgs(status, mint_success, tx_hash, minted_address, author_id, reply_id) ==
    [status |-> status, mint_success |-> mint_success, tx_hash |-> tx_hash,
     minted_address |-> minted_address, author_id |-> author_id,
     reply_id |-> reply_id]

\* add_mention that also moves last_tweet_id up to the tweet it records
add_mention_advancing(mem, tweet_id, a) ==
    LET mention_data ==
            [status |-> a.status,
             mint_success |-> a.mint_success,
             tweet_success |-> a.reply_id,
             author_id |-> a.author_id,
             transaction_hash |-> a.tx_hash,
             minted_address |-> a.minted_address,
             reply_id |-> a.reply_id]
    IN [mentions |-> [i \in (DOMAIN mem.mentions) \cup {tweet_id} |->
                        IF i = tweet_id THEN mention_data ELSE mem.mentions[i]],
        last_tweet_id |-> IF tweet_id > mem.last_tweet_id
                          THEN tweet_id ELSE mem.last_tweet_id]

add_mention(mem, tweet_id, a) ==
    IF a.status = "not_mint_request" THEN mem
    ELSE LET mention_data ==
                 [status |-> a.status,
                  mint_success |-> a.mint_success,
                  tweet_success |-> a.reply_id,
                  author_id |-> a.author_id,
                  transaction_hash |-> a.tx_hash,
                  minted_address |-> a.minted_address,
                  reply_id |-> a.reply_id]
         IN [mem EXCEPT !.mentions =
                [i \in (DOMAIN mem.mentions) \cup {tweet_id} |->
                    IF i = tweet_id THEN mention_data ELSE mem.mentions[i]]]

\* The entries has_successful_mint stops at
PriorMints(mem, author_id, address) ==
    { t \in DOMAIN mem.mentions :
        /\ mem.mentions[t].mint_success
        /\ \/ mem.mentions[t].author_id = author_id
           \/ /\ address # None
              /\ Lower(mem.mentions[t].minted_address) = Lower(address) }

\* has_successful_mint comparing the addresses as spelled (no .lower())
has_successful_mint_case_sensitive(mem, author_id, address) ==
    LET hits == { t \in DOMAIN mem.mentions :
                    /\ mem.mentions[t].mint_success
                    /\ \/ mem.mentions[t].author_id = author_id
                       \/ /\ address # None
                          /\ mem.mentions[t].minted_address = address }
    IN IF hits = {} THEN 0 ELSE CHOOSE t \in hits : \A u \in hits : t <= u

\* has_successful_mint without the mint_success test
has_successful_mint_any_entry(mem, author_id, address) ==
    LET hits == { t \in DOMAIN mem.mentions :
                    \/ mem.mentions[t].author_id = author_id
                    \/ /\ address # None
                       /\ mem.mentions[t].minted_address # None
                       /\ Lower(mem.mentions[t].minted_address) = Lower(address) }
    IN IF hits = {} THEN 0 ELSE CHOOSE t \in hits : \A u \in hits : t <= u

\* has_successful_mint: a tweet id, or 0 for None
has_successful_mint(mem, author_id, address) ==
    LET hits == PriorMints(mem, author_id, address) IN
    IF hits = {} THEN 0 ELSE CHOOSE t \in hits : \A u \in hits : t <= u

\* --------------------------------------------------------------- the state
VARIABLES
    feed,          \* the mentions of the account, oldest first: [author_id, text]
    file,          \* the state file
    memory,        \* mention_memory.memory of the running process
    pc,            \* "stopped", "idle" (top of the while loop), "batch"
    interval,      \* the interval run_autonomous_mode was started with
    all_tweets,    \* the batch being processed (tweet ids, in the order fetched)
    idx,           \* position of the for loop in all_tweets
    chain,         \* per (author, address): assets minted on chain
    replies,       \* per tweet id: reply instructions handed to agent_executor.stream
    seen,          \* the tweet ids process_tweet was called with before
    fetched,       \* the largest tweet id get_all_mentions has returned so far
    obs,           \* what the last process_tweet call met
    faults,        \* crashes and escaped reply failures so far
    tx_receipts,   \* get_transaction_data on its own: the explorer's answers
    tx_out,        \* get_transaction_data on its own: what the call returned
    ex_text,       \* is_valid_mint_request_with_feedback on its own: the text
    ex_answer,     \* ... the resolver's answer
    ex_out         \* ... what the call returned

vars == <<feed, file, memory, pc, interval, all_tweets, idx,
          chain, replies, seen, fetched, obs, faults, tx_receipts, tx_out,
          ex_text, ex_answer, ex_out>>

txvars == <<tx_receipts, tx_out>>
exvars == <<ex_text, ex_answer, ex_out>>

LowerAddresses == {AddrLowerA, AddrLowerB}

NoObs ==
    [id |-> 0, found |-> FALSE, status |-> None,
     bal_ok |-> FALSE, balance |-> 0, rep_ok |-> FALSE, score |-> 0,
     checked |-> FALSE, prior |-> FALSE, mint |-> None, reply |-> None,
     result |-> None, rcpt |-> None, calls |-> 0, tries |-> 0]

\* get_transaction_data not called
NoTxOut == [ret |-> <<None, None, FALSE>>, polls |-> 0, sleeps |-> 0]
NoReceipts == [i \in 1..TX_MAX_RETRIES |-> "absent"]

\* is_valid_mint_request_with_feedback not called
NoExOut == [address |-> None, domain |-> None, status |-> "not_called"]
NoExIn ==
    /\ ex_text = <<>>
    /\ ex_answer = None
    /\ ex_out = NoExOut

InitMain ==
    /\ feed = <<>>
    /\ file = NoFile
    /\ memory = FreshMemory
    /\ pc = "stopped"
    /\ interval = -1
    /\ all_tweets = <<>>
    /\ idx = 1
    /\ chain = [p \in Authors \X LowerAddresses |-> 0]
    /\ replies = [t \in TweetIds |-> 0]
    /\ seen = {}
    /\ fetched = 0
    /\ obs = NoObs
    /\ faults = 0

Init ==
    /\ InitMain
    /\ tx_receipts = NoReceipts
    /\ tx_out = NoTxOut
    /\ NoExIn

history == <<chain, replies, seen, fetched>>

\* ------------------------------------------------------------- the feed
\* Somebody mentions the account.
NewMention ==
    /\ Len(feed) < MaxTweets
    /\ pc # "batch"
    /\ \E m \in MentionKinds : feed' = Append(feed, m)
    /\ obs' = NoObs
    /\ UNCHANGED <<file, memory, pc, interval, all_tweets, idx, history, faults, txvars, exvars>>

\* ---------------------------------------------------------- the scheduler
\* The intervals run_autonomous_mode is started with: 1, and 0, the largest
\* value on the other side of "interval > 0" (main passes -1, which takes
\* the same branch).
Intervals == {0, 1}

\* main / run_autonomous_mode up to the while loop: MentionMemory()
Start ==
    /\ pc = "stopped"
    /\ \E iv \in Intervals : interval' = iv
    /\ memory' = load_memory(file)
    /\ pc' = "idle"
    /\ all_tweets' = <<>>
    /\ idx' = 1
    /\ obs' = NoObs
    /\ UNCHANGED <<feed, file, history, faults, txvars, exvars>>

\* The process ends: exit(0), sys.exit(0), or a kill.
Stopped ==
    /\ pc' = "stopped"
    /\ interval' = -1
    /\ memory' = FreshMemory
    /\ all_tweets' = <<>>
    /\ idx' = 1

\* the tail of one pass of the while loop sleeping whatever the interval
NextCycle_always_sleeps(mem) ==
    /\ pc' = "idle"
    /\ interval' = interval
    /\ memory' = mem
    /\ all_tweets' = <<>>
    /\ idx' = 1

\* the tail of one pass of the while loop: sleep, or exit(0)
NextCycle(mem) ==
    IF interval > 0
    THEN /\ pc' = "idle"
         /\ interval' = interval
         /\ memory' = mem
         /\ all_tweets' = <<>>
         /\ idx' = 1
    ELSE Stopped

RECURSIVE Descending(_, _)
Descending(hi, lo) == IF hi < lo THEN <<>> ELSE <<hi>> \o Descending(hi - 1, lo)

\* get_users_mentions(since_id, max_results): the newest max_results
\* mentions with an id above since_id (all, when since_id is None), newest
\* first
Mentions(since_id, n) ==
    LET lo == IF n - since_id > MAX_RESULTS THEN n - MAX_RESULTS + 1 ELSE since_id + 1
    IN Descending(n, lo)

\* get_all_mentions: the tweets of the response; [] when the response holds
\* no JSON with "data"; or the tool raises.
Fetch ==
    /\ pc = "idle"
    /\ obs' = NoObs
    /\ UNCHANGED <<txvars, exvars>>
    /\ \/ /\ all_tweets' = Mentions(memory.last_tweet_id, Len(feed))
          /\ fetched' = IF MaxId(all_tweets', 1) > fetched
                        THEN MaxId(all_tweets', 1) ELSE fetched
          /\ pc' = "batch"
          /\ idx' = 1
          /\ UNCHANGED <<feed, file, memory, interval, chain, replies, seen, faults>>
       \/ /\ all_tweets' = <<>>
          /\ pc' = "batch"
          /\ idx' = 1
          /\ UNCHANGED <<feed, file, memory, interval, history, faults>>
       \/ /\ file' = save_memory(memory)
          /\ NextCycle(memory)
          /\ UNCHANGED <<feed, history, faults>>

\* after the for loop: update_last_tweet_id, save_memory, sleep or exit
EndBatch ==
    /\ pc = "batch"
    /\ idx > Len(all_tweets)
    /\ LET mem == update_last_tweet_id(memory, all_tweets) IN
          /\ file' = save_memory(mem)
          /\ NextCycle(mem)
    /\ obs' = NoObs
    /\ UNCHANGED <<feed, history, faults, txvars, exvars>>

\* KeyboardInterrupt inside the while loop: save_memory, sys.exit(0)
Interrupt ==
    /\ pc \in {"idle", "batch"}
    /\ file' = save_memory(memory)
    /\ Stopped
    /\ obs' = NoObs
    /\ UNCHANGED <<feed, history, faults, txvars, exvars>>

\* The process is killed between two steps: nothing is saved.
Crash ==
    /\ pc \in {"idle", "batch"}
    /\ Stopped
    /\ obs' = NoObs
    /\ UNCHANGED <<feed, file, history, faults, txvars, exvars>>

\* The process is killed inside a save_memory call of the end of the batch:
\* the file is left truncated.
CrashInSave ==
    /\ pc = "batch"
    /\ idx > Len(all_tweets)
    /\ faults < MaxFaults
    /\ faults' = faults + 1
    /\ file' = CorruptFile
    /\ Stopped
    /\ obs' = NoObs
    /\ UNCHANGED <<feed, history, txvars, exvars>>

\* ------------------------------------------------------ the outside world
\* get_eth_balance: the balance, or None when the query raised
BalanceResults ==
    {[ok |-> FALSE, v |-> 0], [ok |-> TRUE, v |-> 0], [ok |-> TRUE, v |-> 1]}

\* addr.reputation(): the answers to the successive attempts of one
\* check_reputation call: the query raises k times, then brings a score.
\* It answers at once, or raises on every attempt, or answers (with the
\* score just below the threshold) on the last attempt only.
Scores == {REPUTATION_THRESHOLD - 1, REPUTATION_THRESHOLD}
RepAnswers(k, s) ==
    [i \in 1..(REP_MAX_RETRIES + 1) |->
        IF i <= k THEN [raised |-> TRUE, score |-> 0]
                  ELSE [raised |-> FALSE, score |-> s]]
ReputationScenarios ==
    { RepAnswers(0, s) : s \in Scores }
        \cup { RepAnswers(REP_MAX_RETRIES, REPUTATION_THRESHOLD - 1),
               RepAnswers(REP_MAX_RETRIES + 1, REPUTATION_THRESHOLD) }

RECURSIVE TryReputation(_, _, _)
\* the for loop of check_reputation from attempt on (0-based); tries counts
\* the addr.reputation() calls made; ok FALSE is the return of None
TryReputation(answers, attempt, max_retries) ==
    IF attempt > max_retries
    THEN [ok |-> FALSE, score |-> 0, tries |-> attempt]
    ELSE LET a == answers[attempt + 1] IN
         IF ~a.raised
         THEN [ok |-> TRUE, score |-> a.score, tries |-> attempt + 1]
         ELSE IF attempt < max_retries
              THEN TryReputation(answers, attempt + 1, max_retries)
              ELSE [ok |-> FALSE, score |-> 0, tries |-> attempt + 1]

\* check_reputation giving up after the first attempt
check_reputation_single_attempt(answers) == TryReputation(answers, 0, 0)

check_reputation(answers) == TryReputation(answers, 0, REP_MAX_RETRIES)

ReputationResults == { check_reputation(a) : a \in ReputationScenarios }

\* agent_executor.stream on a reply prompt: a tool message that holds the
\* reply's id, no such message, or an exception of the executor
ReplyResults == {"id", "noid", "raise"}

\* wallet.invoke_contract(...).wait(): the call raised ("error"), or the
\* transaction was mined and minted the asset, or was mined and reverted
WalletResults == {"error", "mined", "reverted"}

\* The block explorer's answers to successive receipt queries: no result
\* until the receipt is indexed, from then on the same receipt (status 0;
\* status 1 without a usable log; status 1 with the Transfer log).
ReceiptKinds(w) == IF w = "mined" THEN {"nolog", "log"} ELSE {"failed"}

ReceiptScenarios(w) ==
    { [i \in 1..TX_MAX_RETRIES |-> IF i <= k THEN "absent" ELSE r] :
        k \in 0..TX_MAX_RETRIES, r \in ReceiptKinds(w) }

RECURSIVE PollReceipt(_, _, _)
\* the for loop of get_transaction_data from attempt on (0-based);
\* polls counts the requests.get calls made, sleeps the time.sleep calls
PollReceipt(receipts, attempt, max_retries) ==
    IF attempt >= max_retries
    THEN [ret |-> <<None, None, FALSE>>, polls |-> attempt, sleeps |-> 0]
    ELSE LET data == receipts[attempt + 1] IN
         IF data = "failed"
         THEN [ret |-> <<None, None, FALSE>>, polls |-> attempt + 1, sleeps |-> 0]
         ELSE IF data = "log"
              THEN [ret |-> <<"token", "contract", TRUE>>, polls |-> attempt + 1,
                    sleeps |-> 0]
              ELSE LET rest == PollReceipt(receipts, attempt + 1, max_retries) IN
                   IF attempt < max_retries - 1
                   THEN [rest EXCEPT !.sleeps = @ + 1]
                   ELSE rest

\* get_transaction_data reporting a confirmed mint after one query,
\* whatever the receipt
get_transaction_data_optimistic(receipts) ==
    [ret |-> <<"token", "contract", TRUE>>, polls |-> 1, sleeps |-> 0]

\* get_transaction_data taking a failure status for a receipt not yet there
get_transaction_data_ignoring_status(receipts) ==
    PollReceipt([i \in 1..TX_MAX_RETRIES |->
                    IF receipts[i] = "failed" THEN "absent" ELSE receipts[i]],
                0, TX_MAX_RETRIES)

\* get_transaction_data with one attempt fewer
get_transaction_data_gives_up_early(receipts) ==
    PollReceipt(receipts, 0, TX_MAX_RETRIES - 1)

\* get_transaction_data giving up at a success receipt without a usable log
get_transaction_data_nolog_is_failure(receipts) ==
    PollReceipt([i \in 1..TX_MAX_RETRIES |->
                    IF receipts[i] = "nolog" THEN "failed" ELSE receipts[i]],
                0, TX_MAX_RETRIES)

get_transaction_data(receipts) == PollReceipt(receipts, 0, TX_MAX_RETRIES)

\* What the first polls queries of a call brought: the receipt with the
\* Transfer log, a failure status, a success status without a usable log,
\* or no result at all.
ReceiptSeen(receipts, polls) ==
    LET got == { receipts[i] : i \in 1..polls } IN
    IF "log" \in got THEN "log"
    ELSE IF "failed" \in got THEN "failed"
    ELSE IF "nolog" \in got THEN "nolog"
    ELSE "absent"

\* get_transaction_data on its own, on any sequence of answers
AllReceiptKinds == {"absent", "nolog", "failed", "log"}
TxInputs == [1..TX_MAX_RETRIES -> AllReceiptKinds]

InitTx ==
    /\ InitMain
    /\ tx_receipts \in TxInputs
    /\ tx_out = NoTxOut
    /\ NoExIn

TxCall ==
    /\ tx_out = NoTxOut
    /\ tx_out' = get_transaction_data(tx_receipts)
    /\ UNCHANGED <<feed, file, memory, pc, interval, all_tweets, idx,
                   chain, replies, seen, fetched, obs, faults, tx_receipts,
                   exvars>>

NextTx == TxCall

SpecTx == InitTx /\ [][NextTx]_vars

\* is_valid_mint_request_with_feedback on its own, on every text of the
\* bot's tag followed by up to MaxWords words: a handle, a plain word, an
\* address literal with a right or a wrong checksum, a name.
ExTokens ==
    {BotTag, Tok("word", "mint"), Tok("addr", AddrChecksumA),
     Tok("addr", AddrBadMixA), Tok("ens", EnsName)}
ExTexts ==
    { <<BotTag>> \o body : body \in UNION { [1..n -> ExTokens] : n \in 0..MaxWords } }

InitEx ==
    /\ InitMain
    /\ tx_receipts = NoReceipts
    /\ tx_out = NoTxOut
    /\ ex_text \in ExTexts
    /\ ex_answer \in EnsAnswers
    /\ ex_out = NoExOut

ExCall ==
    /\ ex_out = NoExOut
    /\ ex_out' = is_valid_mint_request_with_feedback(ex_text, ex_answer)
    /\ UNCHANGED <<feed, file, memory, pc, interval, all_tweets, idx,
                   chain, replies, seen, fetched, obs, faults, txvars,
                   ex_text, ex_answer>>

NextEx == ExCall

SpecEx == InitEx /\ [][NextEx]_vars

\* ------------------------------------------------------------ process_tweet
NoAdd == [write |-> FALSE, args |-> MentionArgs(None, FALSE, FALSE, None, None, FALSE)]
Add(args) == [write |-> TRUE, args |-> args]

\* One process_tweet call on tweet id ends.  add: its add_mention call, if
\* any; ctl: how control leaves ("return", "raise": an exception reaches the
\* scheduler's except clause, "exit": exit(0), "crash": the process dies);
\* dm, dr: the address an asset was minted to and the reply prompts of this
\* call; df: whether it counts as a fault.
Done(id, o, add, ctl, dm, dr, df) ==
    LET mem == IF add.write THEN add_mention(memory, id, add.args) ELSE memory
        stored == add.write /\ add.args.status # "not_mint_request"
        saved == IF stored THEN save_memory(mem) ELSE file
    IN
    /\ chain' = IF dm = None THEN chain
                ELSE [chain EXCEPT ![<<feed[id].author_id, Lower(dm)>>] = @ + 1]
    /\ replies' = [replies EXCEPT ![id] = @ + dr]
    /\ seen' = seen \cup {id}
    /\ obs' = o
    /\ faults' = faults + df
    /\ UNCHANGED <<feed, fetched, txvars, exvars>>
    /\ CASE ctl = "return" ->
              /\ interval' = interval
              /\ memory' = mem
              /\ file' = saved
              /\ pc' = "batch"
              /\ idx' = idx + 1
              /\ UNCHANGED all_tweets
         [] ctl = "raise" ->
              /\ file' = save_memory(mem)
              /\ NextCycle(mem)
         [] OTHER ->
              /\ file' = saved
              /\ Stopped

\* send_error_reply and the add_mention after it
ErrorReply(id, o, status, address) ==
    \E r \in ReplyResults :
        IF r = "raise"
        THEN /\ faults < MaxFaults
             /\ Done(id, [o EXCEPT !.reply = r, !.result = "raised"],
                     NoAdd, "raise", None, 1, 1)
        ELSE Done(id, [o EXCEPT !.reply = r, !.result = status],
                  Add(MentionArgs(status, FALSE, FALSE, address,
                                  feed[id].author_id, r = "id")),
                  "return", None, 1, 0)

\* The try statement of process_tweet around process_mint_request:
\* raised, or the tuple returned, which is unpacked into four names.
MintOutcome(id, o, address, raised, ret, dm, dr) ==
    IF ~raised /\ Len(ret) = 4
    THEN Done(id, [o EXCEPT !.result = "processed"],
              Add(MentionArgs("processed", ret[1], ret[2] # None, address,
                              feed[id].author_id, ret[3] # None)),
              "return", dm, dr, 0)
    ELSE Done(id, [o EXCEPT !.result = "error"],
              Add(MentionArgs("error", FALSE, FALSE, address,
                              feed[id].author_id, FALSE)),
              "return", dm, dr, 0)

TxHash == "0xhash"

\* process_mint_request reporting the confirmed mint as a success whether
\* or not the reply brought an id
SuccessReply_confirmed_is_success(id, o, address, dm) ==
    \E r \in ReplyResults :
        IF r = "raise"
        THEN MintOutcome(id, [o EXCEPT !.mint = "replied", !.reply = r], address,
                         TRUE, <<>>, dm, 1)
        ELSE MintOutcome(id, [o EXCEPT !.mint = "replied", !.reply = r], address,
                         FALSE,
                         <<TRUE, TxHash, IF r = "id" THEN "reply" ELSE None, "name">>,
                         dm, 1)

\* process_mint_request from the reply prompt on
SuccessReply(id, o, address, dm) ==
    \E r \in ReplyResults :
        IF r = "id"
        THEN MintOutcome(id, [o EXCEPT !.mint = "replied", !.reply = r], address,
                         FALSE, <<TRUE, TxHash, "reply", "name">>, dm, 1)
        ELSE \* reply_id was never bound, or stream raised
             MintOutcome(id, [o EXCEPT !.mint = "replied", !.reply = r], address,
                         TRUE, <<>>, dm, 1)

\* process_mint_request calling mint_myNft a second time when the first
\* call brought no transaction hash
process_mint_request_retrying(id, o, address) ==
    \E w1 \in WalletResults, w2 \in WalletResults :
        LET calls == IF w1 = "error" THEN 2 ELSE 1
            w == IF w1 = "error" THEN w2 ELSE w1
            dm == IF w = "mined" THEN address ELSE None
        IN
        IF w = "error"
        THEN MintOutcome(id, [o EXCEPT !.calls = calls, !.mint = "no_hash"],
                         address, TRUE, <<>>, None, 0)
        ELSE MintOutcome(id, [o EXCEPT !.calls = calls, !.mint = "unconfirmed"],
                         address, FALSE, <<FALSE, TxHash, None>>, dm, 0)

\* process_mint_request; calls counts the mint_myNft calls of the pass
process_mint_request(id, o0, address) ==
    \E w \in WalletResults :
        LET dm == IF w = "mined" THEN address ELSE None
            o == [o0 EXCEPT !.calls = 1]
        IN
        IF w = "error"
        THEN \* no "Transaction hash:" in mint_result
             MintOutcome(id, [o EXCEPT !.mint = "no_hash"], address, TRUE, <<>>, None, 0)
        ELSE
          \/ \* the process dies after the wallet call
             /\ faults < MaxFaults
             /\ Done(id, [o EXCEPT !.mint = "killed", !.result = "crash"],
                     NoAdd, "crash", dm, 0, 1)
          \/ \E receipts \in ReceiptScenarios(w) :
               LET out == get_transaction_data(receipts)
                   td == out.ret
                   oc == [o EXCEPT !.rcpt = ReceiptSeen(receipts, out.polls)]
               IN
               IF ~td[3] \/ td[1] = None \/ td[2] = None
               THEN MintOutcome(id, [oc EXCEPT !.mint = "unconfirmed"], address,
                                FALSE, <<FALSE, TxHash, None>>, dm, 0)
               ELSE \E uri \in {"ok", "fail"} :
                 IF uri = "fail"
                 THEN MintOutcome(id, [oc EXCEPT !.mint = "no_metadata"], address,
                                  FALSE, <<FALSE, TxHash, None>>, dm, 0)
                 ELSE \E png \in {"ok", "none"}, upload \in {"ok", "none", "raise"} :
                   IF png = "ok" /\ upload = "ok"
                   THEN SuccessReply(id, oc, address, dm)
                   ELSE \* media_upload raised, or media_id was never bound
                        MintOutcome(id, [oc EXCEPT !.mint = "no_media"], address,
                                    TRUE, <<>>, dm, 0)

\* the threshold test letting the score just below the threshold pass
low_reputation_off_by_one(score) == score < REPUTATION_THRESHOLD - 1

\* the threshold test turning away the score equal to the threshold
low_reputation_closed_upper(score) == score <= REPUTATION_THRESHOLD

\* reputation.score < REPUTATION_THRESHOLD
low_reputation(score) == score < REPUTATION_THRESHOLD

\* not balance > 0
no_balance(balance) == ~(balance > 0)

\* the prior-mint check applied to every author, the admin included
checks_prior_mint_for_all(author_id) == TRUE

\* author_id != ADMIN_ID
checks_prior_mint(author_id) == author_id # ADMIN_ID

process_tweet(id) ==
    LET author_id == feed[id].author_id
        o0 == [NoObs EXCEPT !.id = id]
    IN
    IF is_processed(memory, id)
    THEN Done(id, [o0 EXCEPT !.result = "already_processed"],
              NoAdd, "return", None, 0, 0)
    ELSE \E answer \in EnsAnswers :
      LET ext == is_valid_mint_request_with_feedback(feed[id].text, answer) IN
      IF ext.address = None
      THEN Done(id, [o0 EXCEPT !.result = "not_mint_request"],
                NoAdd, "return", None, 0, 0)
      ELSE LET o1 == [o0 EXCEPT !.found = TRUE, !.status = ext.status] IN
      IF ext.status = "invalid_address"
      THEN ErrorReply(id, o1, "invalid_address", ext.address)
      ELSE \E bal \in BalanceResults :
        LET o2 == [o1 EXCEPT !.bal_ok = bal.ok, !.balance = bal.v] IN
        IF ~bal.ok
        THEN Done(id, [o2 EXCEPT !.result = "balance_unknown"],
                  NoAdd, "return", None, 0, 0)
        ELSE IF no_balance(bal.v)
        THEN ErrorReply(id, o2, "zero_balance", ext.address)
        ELSE \E rep \in ReputationResults :
          LET o3 == [o2 EXCEPT !.rep_ok = rep.ok, !.score = rep.score,
                                !.tries = rep.tries] IN
          IF ~rep.ok
          THEN Done(id, [o3 EXCEPT !.result = "exit"],
                    NoAdd, "exit", None, 0, 0)
          ELSE IF low_reputation(rep.score)
          THEN ErrorReply(id, o3, "low_reputation", ext.address)
          ELSE LET previous_tweet_id ==
                       IF checks_prior_mint(author_id)
                       THEN has_successful_mint(memory, author_id, ext.address)
                       ELSE 0
                   o4 == [o3 EXCEPT !.checked = TRUE,
                             !.prior = PriorMints(memory, author_id, ext.address) # {}]
               IN
               IF previous_tweet_id # 0
               THEN ErrorReply(id, o4, "duplicate_request", None)
               ELSE process_mint_request(id, o4, ext.address)

\* one pass of the for loop of run_autonomous_mode
ProcessTweet ==
    /\ pc = "batch"
    /\ idx <= Len(all_tweets)
    /\ process_tweet(all_tweets[idx])

Next ==
    \/ NewMention
    \/ Start
    \/ Fetch
    \/ ProcessTweet
    \/ EndBatch
    \/ Interrupt
    \/ Crash
    \/ CrashInSave

Spec == Init /\ [][Next]_vars

\* ---------------------------------------------------------------- claims
\* The ledger of the running process and the one in the state file
Ledgers == {memory.mentions, file.data.mentions}

\* The statuses process_tweet hands to add_mention
Written == {"invalid_address", "zero_balance", "low_reputation",
            "duplicate_request", "processed", "error"}

Sum2(f, a) == f[<<a, AddrLowerA>>] + f[<<a, AddrLowerB>>]
RequesterMints(addr) == chain[<<"u1", addr>>] + chain[<<"u2", addr>>]

\* C1 (as claimed): a process_tweet call on a mention id that process_tweet
\* was called with before invokes no wallet mint, writes no ledger entry and
\* submits no reply: the second pass changes nothing.
C1_SecondPassIsNoOp ==
    [][ (obs'.id # 0 /\ obs'.id \in seen)
          => (obs'.mint = None /\ obs'.reply = None /\ obs'.result \notin Written) ]_vars

\* C2 (as claimed): over any run, every requester other than the admin gets
\* at most one asset minted on chain, and every address gets at most one asset
\* minted on chain for such requesters.
C2_AtMostOneAssetEver ==
    /\ \A a \in Authors \ {ADMIN_ID} : Sum2(chain, a) <= 1
    /\ \A addr \in LowerAddresses : RequesterMints(addr) <= 1

\* C3 (as claimed): in every ledger, at most one entry per author id has
\* mint_success = true, and at most one entry per minted address, compared
\* case-insensitively, has mint_success = true.
C3_OneSuccessPerIdentity ==
    \A L \in Ledgers : \A t1, t2 \in DOMAIN L :
        (t1 # t2 /\ L[t1].mint_success /\ L[t2].mint_success)
          => /\ L[t1].author_id # L[t2].author_id
             /\ Lower(L[t1].minted_address) # Lower(L[t2].minted_address)

\* C3 (amended): in every ledger, among the entries written for authors
\* other than the admin, at most one entry per author id has
\* mint_success = true and at most one entry per minted address, compared
\* case-insensitively, has mint_success = true.
C3_OneSuccessPerIdentityExceptAdmin ==
    \A L \in Ledgers : \A t1, t2 \in DOMAIN L :
        (/\ t1 # t2
         /\ L[t1].mint_success /\ L[t2].mint_success
         /\ L[t1].author_id # ADMIN_ID /\ L[t2].author_id # ADMIN_ID)
          => /\ L[t1].author_id # L[t2].author_id
             /\ Lower(L[t1].minted_address) # Lower(L[t2].minted_address)

\* C3 witness: a requester holds a successful mint and a later request of
\* another requester for the same account, spelled differently, was turned
\* down as a duplicate.
C3_Witness ==
    \E t1, t2 \in DOMAIN memory.mentions :
        /\ memory.mentions[t1].mint_success
        /\ memory.mentions[t1].author_id # ADMIN_ID
        /\ memory.mentions[t2].status = "duplicate_request"
        /\ memory.mentions[t2].author_id \notin {ADMIN_ID, memory.mentions[t1].author_id}
        /\ feed[t2].text = TextChecksumA
        /\ memory.mentions[t1].minted_address = AddrLowerA

\* C4 (as claimed): when the mint of a mention is confirmed, token data and
\* metadata are obtained, and no reply id is recovered from the executor's
\* output, the mention's ledger entry has mint_success = true and no reply id.
C4_LostReplyKeepsMint ==
    (obs.mint = "replied" /\ obs.reply = "noid")
      => /\ obs.id \in DOMAIN memory.mentions
         /\ memory.mentions[obs.id].mint_success
         /\ ~memory.mentions[obs.id].reply_id

\* C5 (as claimed): a request of an author other than the admin that passed
\* the address, balance and reputation checks while the ledger holds a
\* successful mint of that author or for that address (ignoring case) is
\* ledgered as duplicate_request, and the wallet is not invoked for it.
C5_DuplicateIsLedgered ==
    (obs.checked /\ obs.prior /\ feed[obs.id].author_id # ADMIN_ID)
      => /\ obs.mint = None
         /\ obs.id \in DOMAIN file.data.mentions
         /\ file.data.mentions[obs.id].status = "duplicate_request"

\* C6: a request of the admin that passed the address, balance and
\* reputation checks reaches the mint stage (the wallet is invoked), also
\* when the ledger holds a successful mint of the admin or for that address.
C6_AdminExempt ==
    (obs.checked /\ feed[obs.id].author_id = ADMIN_ID) => obs.mint # None

\* C6 witness: the admin's request reached the mint stage although the
\* ledger held a successful mint of that author or for that address.
C6_Witness ==
    /\ obs.checked
    /\ feed[obs.id].author_id = ADMIN_ID
    /\ obs.prior
    /\ obs.mint # None

\* C7: the wallet is invoked for a mention only after its literal was found
\* and validated, its balance came back above 0 and its reputation score came
\* back not below the threshold; a call that ended in invalid_address,
\* zero_balance or low_reputation, or whose balance or reputation query
\* failed, invoked no wallet.
C7_AdmissionGate ==
    /\ obs.mint # None
         => /\ obs.found /\ obs.status = "valid"
            /\ obs.bal_ok /\ obs.balance > 0
            /\ obs.rep_ok /\ obs.score >= REPUTATION_THRESHOLD
    /\ (\/ obs.result \in {"invalid_address", "zero_balance", "low_reputation"}
        \/ (obs.found /\ obs.status = "valid" /\ ~obs.bal_ok)
        \/ (obs.bal_ok /\ obs.balance > 0 /\ obs.result # None /\ ~obs.rep_ok))
         => obs.mint = None

\* C7 witness: the wallet was invoked for a mention whose score is exactly
\* the threshold.
C7_Witness ==
    /\ obs.mint = "replied"
    /\ obs.score = REPUTATION_THRESHOLD
    /\ obs.balance > 0

\* C8 (as claimed): when the balance query of a mention's address returns no
\* value, the mention is ledgered with status zero_balance.
C8_BalanceFailClosed ==
    (obs.found /\ obs.status = "valid" /\ ~obs.bal_ok)
      => /\ obs.id \in DOMAIN file.data.mentions
         /\ file.data.mentions[obs.id].status = "zero_balance"

\* C9 (as claimed): once process_tweet has finished with a mention in which
\* a target literal was found, on whatever branch, the ledger holds an entry
\* for its id.
C9_OneTerminalWrite ==
    (obs.found /\ obs.result # "crash")
      => (file.state = "ok" /\ obs.id \in DOMAIN file.data.mentions)

\* C10 (as claimed): for every mention with a ledger entry, exactly one reply
\* instruction was submitted to the action executor.
C10_OneReplyPerLedgeredMention ==
    \A t \in DOMAIN memory.mentions : replies[t] = 1

\* The ledger entries with mint_success = true that L2 holds and L1 did not
NewSuccesses(L1, L2) ==
    { t \in DOMAIN L2 :
        L2[t].mint_success /\ ~(t \in DOMAIN L1 /\ L1[t].mint_success) }

\* C11: a ledger entry with mint_success = true comes into being, in the
\* running process and in the state file, only in a process_tweet call on
\* that mention in which a receipt poll returned a success status with the
\* token id and contract address in its last log; a call whose polls brought
\* no result, a failure status, or no usable log leaves no entry with
\* mint_success = true.
C11_NoSuccessWithoutConfirmation ==
    [][ /\ \A t \in NewSuccesses(file.data.mentions, file'.data.mentions) :
              obs'.id = t /\ obs'.rcpt = "log"
        /\ pc # "stopped"
              => \A t \in NewSuccesses(memory.mentions, memory'.mentions) :
                     obs'.id = t /\ obs'.rcpt = "log"
        /\ (obs'.rcpt \in {"absent", "failed", "nolog"}
               /\ obs'.id \in DOMAIN file'.data.mentions)
              => ~file'.data.mentions[obs'.id].mint_success ]_vars

\* C11 witness: a mention whose receipt came with the Transfer log is
\* ledgered with mint_success = true.
C11_Witness ==
    /\ obs.rcpt = "log"
    /\ obs.id \in DOMAIN file.data.mentions
    /\ file.data.mentions[obs.id].mint_success

AllAbsent(receipts) == \A i \in 1..TX_MAX_RETRIES : receipts[i] = "absent"

\* C12: get_transaction_data never issues more than max_retries receipt
\* queries, and when every query returns no result it issues exactly
\* max_retries queries and returns (None, None, False).
C12_RetryBound ==
    tx_out # NoTxOut
      => /\ tx_out.polls <= TX_MAX_RETRIES
         /\ AllAbsent(tx_receipts)
              => /\ tx_out.polls = TX_MAX_RETRIES
                 /\ tx_out.ret = <<None, None, FALSE>>

\* C12 witness: a call whose queries all returned no result has ended.
C12_Witness ==
    /\ tx_out # NoTxOut
    /\ AllAbsent(tx_receipts)
    /\ tx_out.polls = TX_MAX_RETRIES

\* C13 (as claimed): when the wallet call returned a transaction hash and
\* the receipt stayed absent on all polls or reported a failure status, the
\* mention is ledgered with status processed and mint_success = false.
C13_UnconfirmedIsProcessed ==
    (obs.mint = "unconfirmed" /\ obs.rcpt \in {"absent", "failed"})
      => /\ obs.id \in DOMAIN file.data.mentions
         /\ file.data.mentions[obs.id].status = "processed"
         /\ ~file.data.mentions[obs.id].mint_success

\* A mention whose text holds neither an address literal nor a name literal
NotARequest(t) ==
    \A answer \in EnsAnswers :
        is_valid_mint_request_with_feedback(feed[t].text, answer).address = None

\* What a start of the process would load from the state file
Stored == load_memory(file)

\* C14: a process_tweet call on a mention that holds no literal writes no
\* ledger entry, submits no reply and invokes no wallet, and when the batch
\* of such a mention completes the stored checkpoint is at least its id.
C14_NotARequestDrop ==
    [][ /\ (obs'.id # 0 /\ NotARequest(obs'.id))
              => /\ obs'.mint = None /\ obs'.reply = None
                 /\ chain' = chain /\ replies' = replies
                 /\ file' = file
                 /\ obs'.id \notin DOMAIN memory'.mentions
        /\ EndBatch
              => \A i \in 1..Len(all_tweets) :
                     NotARequest(all_tweets[i])
                       => load_memory(file').last_tweet_id >= all_tweets[i] ]_vars

\* C14 witness: a mention without a literal went through process_tweet, has
\* no ledger entry and no reply, and the stored checkpoint has reached its id.
C14_Witness ==
    \E t \in seen :
        /\ NotARequest(t)
        /\ file.state = "ok"
        /\ file.data.last_tweet_id >= t
        /\ t \notin DOMAIN file.data.mentions
        /\ replies[t] = 0

\* C15 (as claimed): an entry of the stored ledger is never changed or
\* removed by a later step, and while the process runs is_processed is true
\* for every id the stored ledger ever held.
C15_WriteOnce ==
    [][ /\ \A t \in DOMAIN Stored.mentions :
              /\ t \in DOMAIN load_memory(file').mentions
              /\ load_memory(file').mentions[t] = Stored.mentions[t]
        /\ pc' # "stopped"
              => \A t \in DOMAIN Stored.mentions : is_processed(memory', t) ]_vars

\* C16 (as claimed): when the process dies inside save_memory, a restart
\* still loads every ledger entry that a restart before that save would have
\* loaded.
C16_AtomicPersist ==
    [][ CrashInSave
          => \A t \in DOMAIN Stored.mentions :
                 t \in DOMAIN load_memory(file').mentions ]_vars

\* C17 (as claimed): the stored last_tweet_id never decreases, whatever the
\* step (batch, error, restart), and the end of a batch changes it only to a
\* batch maximum that is greater than the value held (or when none is held).
C17_CheckpointNeverDecreases ==
    [][ /\ load_memory(file').last_tweet_id >= Stored.last_tweet_id
        /\ (EndBatch /\ load_memory(file').last_tweet_id # memory.last_tweet_id)
              => /\ load_memory(file').last_tweet_id = MaxId(all_tweets, 1)
                 /\ \/ memory.last_tweet_id = 0
                    \/ MaxId(all_tweets, 1) > memory.last_tweet_id ]_vars

\* A polling cycle of run_autonomous_mode ends: after the for loop, in the
\* except clause after a process_tweet call raised, or in the except clause
\* after get_all_mentions raised.
CycleEnds ==
    \/ EndBatch
    \/ (pc = "batch" /\ obs'.result = "raised")
    \/ (Fetch /\ pc' # "batch")

\* C18 (as claimed): after every polling cycle the stored checkpoint equals
\* the largest mention id fetched in this and all earlier cycles.
C18_CheckpointTracksFetch ==
    [][ CycleEnds => load_memory(file').last_tweet_id = fetched' ]_vars

InSeq(x, sq) == \E i \in 1..Len(sq) : sq[i] = x

\* The next run fetches mention t again and finds it unprocessed
Retryable(t) ==
    /\ Stored.last_tweet_id < t
    /\ InSeq(t, Mentions(Stored.last_tweet_id, Len(feed)))
    /\ ~is_processed(Stored, t)

C20_ThresholdClosedLowerBound ==
    obs.rep_ok
      => /\ (obs.score < REPUTATION_THRESHOLD) <=> ~obs.checked
         /\ obs.score < REPUTATION_THRESHOLD
              => /\ obs.mint = None
                 /\ obs.result \in {"low_reputation", "raised"}
                 /\ obs.id \in DOMAIN file.data.mentions
                      => file.data.mentions[obs.id].status = "low_reputation"
         /\ obs.result = "low_reputation" => obs.score < REPUTATION_THRESHOLD

\* C20 witness: a request with a score equal to the threshold reached the
\* duplicate check.
C20_Witness ==
    /\ obs.rep_ok
    /\ obs.score = REPUTATION_THRESHOLD
    /\ obs.checked
    /\ obs.mint = None

\* C21: a run started with interval <= 0 never comes back to the top of the
\* while loop: its one fetch is followed by the batch or by the end of the
\* process, the batch by the end of the process, and the cycle's end, after
\* the for loop or in the except clause after an error, is the end of the
\* process.
C21_OneShot ==
    [][ (pc # "stopped" /\ interval <= 0)
          => /\ pc = "batch" => pc' \in {"batch", "stopped"}
             /\ Fetch => pc' \in {"batch", "stopped"}
             /\ CycleEnds => pc' = "stopped" ]_vars

\* C21 witness: a run with interval <= 0 whose batch raised an error has
\* ended.
C21_Witness ==
    /\ obs.result = "raised"
    /\ pc = "stopped"

\* A step that is one pass of the for loop: every other step clears obs.
PassEnds == obs'.id # 0

\* The terminal outcome the checks of one pass had reached when its reply
\* was submitted.
DeterminedOutcome(o) ==
    IF o.status = "invalid_address" THEN "invalid_address"
    ELSE IF o.bal_ok /\ no_balance(o.balance) THEN "zero_balance"
    ELSE IF o.rep_ok /\ low_reputation(o.score) THEN "low_reputation"
    ELSE IF o.mint = None THEN "duplicate_request"
    ELSE "processed"

\* C22: a reply submission that raises does not escape: the mention's entry
\* is written to the ledger file with the outcome already determined, and
\* the batch goes on with the next mention.
C22_ReplyFailureContained ==
    obs.reply = "raise"
        => /\ obs.id \in DOMAIN Stored.mentions
           /\ Stored.mentions[obs.id].status = DeterminedOutcome(obs)
           /\ pc = "batch"
           /\ obs.result # "raised"

\* The pass of o ended in an exception of the wallet invocation, of the
\* artifact retrieval or of the success reply.
MintStageRaised(o) ==
    \/ o.mint \in {"no_hash", "no_media"}
    \/ o.mint = "replied" /\ o.reply # "id"

ErrorEntry(L, t) ==
    /\ t \in DOMAIN L.mentions
    /\ L.mentions[t].status = "error"
    /\ ~L.mentions[t].mint_success

\* C23: a pass in which a mint stage raises writes the mention's one entry,
\* with status "error" and mint_success false; the entry stays in the ledger
\* file from then on, and a later pass on the mention leaves at the
\* already-processed test.
C23_MintErrorIsTerminal ==
    [][ /\ (PassEnds /\ MintStageRaised(obs'))
            => /\ obs'.id \notin DOMAIN memory.mentions
               /\ ErrorEntry(Stored', obs'.id)
               /\ obs'.result = "error"
        /\ \A t \in TweetIds :
             ErrorEntry(Stored, t)
                => /\ ErrorEntry(Stored', t)
                   /\ (PassEnds /\ obs'.id = t)
                          => obs'.result = "already_processed" ]_vars

\* C24: one pass calls the wallet's mint method at most once and mints at
\* most one asset; when the call brings no transaction hash it is not
\* repeated: nothing is minted and the mention ends with an error entry.
C24_SingleWalletInvocation ==
    [][ PassEnds
          => /\ obs'.calls <= 1
             /\ Cardinality({ p \in DOMAIN chain : chain'[p] # chain[p] }) <= obs'.calls
             /\ \A p \in DOMAIN chain : chain'[p] <= chain[p] + obs'.calls
             /\ obs'.mint = "no_hash"
                  => /\ obs'.calls = 1
                     /\ chain' = chain
                     /\ obs'.result = "error"
                     /\ ErrorEntry(Stored', obs'.id) ]_vars

C24_Witness ==
    /\ obs.mint = "no_hash"
    /\ obs.calls = 1
    /\ obs.result = "error"
    /\ ErrorEntry(Stored, obs.id)

\* The poll at position i is the first that brings a receipt with status 0,
\* and no earlier poll ended the call.
FirstFailure(receipts, i) ==
    /\ receipts[i] = "failed"
    /\ \A j \in 1..(i - 1) : receipts[j] \in {"absent", "nolog"}

\* C25: the first poll that brings a receipt with status 0 is the last
\* receipt query of the call: the call returns confirmed = false, having
\* slept only between the polls before it.
C25_FailureStopsPolling ==
    tx_out # NoTxOut
        => \A i \in 1..TX_MAX_RETRIES :
             FirstFailure(tx_receipts, i)
                => /\ tx_out.polls = i
                   /\ tx_out.sleeps = i - 1
                   /\ tx_out.ret = <<None, None, FALSE>>

C25_Witness ==
    /\ FirstFailure(tx_receipts, 2)
    /\ tx_receipts[3] = "log"
    /\ tx_out.polls = 2
    /\ tx_out.sleeps = 1
    /\ ~tx_out.ret[3]

\* The message of a text: its words after the leading handles.
ExMessage ==
    SubSeq(ex_text, LeadingMentions(ex_text, 1) + 1, Len(ex_text))

\* The literal the call chose as the mint target: the name, when a name was
\* looked up, else the address.
ExChosen ==
    IF ex_out.domain # None \/ ex_out.address = EnsName THEN EnsName
    ELSE ex_out.address

\* C26: when the message holds an address literal and a name literal, the
\* mint target is the one of the two that comes first in the message.
C26_FirstLiteralWins ==
    ex_out # NoExOut
        => LET a == FirstOfKind(ExMessage, "addr", 1)
               e == FirstOfKind(ExMessage, "ens", 1)
           IN (a # 0 /\ e # 0)
                => ExChosen = ExMessage[IF a < e THEN a ELSE e].v

\* C27: in the ledger, in memory and in the file, an entry with mint_success
\* has status "processed", a transaction hash, a reply id and tweet_success;
\* an entry with status "error" has no mint_success, no transaction hash and
\* no reply id.
C27_WellFormedLedger ==
    \A L \in Ledgers : \A t \in DOMAIN L :
        /\ L[t].mint_success
             => /\ L[t].status = "processed"
                /\ L[t].transaction_hash
                /\ L[t].reply_id
                /\ L[t].tweet_success
        /\ L[t].status = "error"
             => /\ ~L[t].mint_success
                /\ ~L[t].transaction_hash
                /\ ~L[t].reply_id

C27_Witness ==
    \E t1, t2 \in DOMAIN file.data.mentions :
        /\ file.data.mentions[t1].mint_success
        /\ file.data.mentions[t2].status = "error"
        /\ memory.mentions = file.data.mentions

\* The requests of the current batch that a process_tweet call has passed
\* over without an entry: the calls that returned at the balance query.
DroppedInBatch ==
    { t \in { all_tweets[i] : i \in 1..(idx - 1) } :
        ~NotARequest(t) /\ t \notin DOMAIN memory.mentions }

\* C28: a pass whose balance query brings no value writes no entry, submits
\* no reply and calls no wallet, and the batch goes on; when the cycle ends
\* the stored checkpoint is at or past every mention so dropped, so that no
\* later fetch returns it.
C28_BalanceFailureAbandons ==
    [][ /\ (PassEnds /\ obs'.result = "balance_unknown")
            => /\ file' = file /\ memory' = memory
               /\ replies' = replies /\ chain' = chain
               /\ obs'.calls = 0
               /\ pc' = "batch" /\ idx' = idx + 1
        /\ CycleEnds
            => \A t \in DroppedInBatch : Stored'.last_tweet_id >= t ]_vars

C30_ErrorKeepsCheckpoint ==
    [][ PassEnds
          => /\ obs'.result = "raised"
                  => /\ file' = save_memory(memory)
                     /\ Stored'.last_tweet_id = memory.last_tweet_id
                     /\ ~is_processed(Stored', obs'.id)
                     /\ all_tweets' = <<>>
                     /\ interval > 0
                          => /\ pc' = "idle"
                             /\ memory' = memory
                             /\ Mentions(memory'.last_tweet_id, Len(feed')) = all_tweets
             /\ (obs'.result = "already_processed")
                  <=> is_processed(memory, obs'.id) ]_vars

\* C30 witness: the second mention of a batch raised after the first was
\* ledgered; the loop goes on from the old checkpoint, so that the next
\* fetch returns both.
C30_Witness ==
    /\ obs.result = "raised"
    /\ pc = "idle"
    /\ interval > 0
    /\ \E t \in DOMAIN memory.mentions :
           /\ t > memory.last_tweet_id
           /\ InSeq(t, Mentions(memory.last_tweet_id, Len(feed)))
    /\ InSeq(obs.id, Mentions(memory.last_tweet_id, Len(feed)))
    /\ file = save_memory(memory)

\* Entry t of ledger L records a successful mint by the author or for the
\* address (compared in lower case).
SuccessFor(L, t, author_id, address) ==
    /\ L[t].mint_success
    /\ \/ L[t].author_id = author_id
       \/ Lower(L[t].minted_address) = Lower(address)

\* The addresses the text of mention t can resolve to.
Targets(t) ==
    { is_valid_mint_request_with_feedback(feed[t].text, answer).address :
        answer \in EnsAnswers }

\* C31: has_successful_mint returns an id only of an entry with mint_success
\* that matches the author or the address, and a pass takes the duplicate
\* branch only when the ledger holds such an entry of another mention;
\* entries without mint_success never do it.
C31_OnlySuccessBlocks ==
    /\ \A a \in Authors, addr \in Addresses :
          LET t == has_successful_mint(memory, a, addr) IN
          t # 0 => SuccessFor(memory.mentions, t, a, addr)
    /\ (obs.checked /\ obs.mint = None)
          => \E L \in Ledgers : \E t \in DOMAIN L : \E addr \in Targets(obs.id) :
                /\ t # obs.id
                /\ SuccessFor(L, t, feed[obs.id].author_id, addr)

\* C31 witness: a requester with a rejected mention in the ledger, and no
\* success for the address, reached the wallet with a later mention.
C31_Witness ==
    /\ obs.checked
    /\ obs.mint # None
    /\ feed[obs.id].author_id # ADMIN_ID
    /\ \E t \in DOMAIN memory.mentions :
          /\ t # obs.id
          /\ memory.mentions[t].author_id = feed[obs.id].author_id
          /\ ~memory.mentions[t].mint_success
          /\ Lower(memory.mentions[t].minted_address) \in { Lower(a) : a \in Targets(obs.id) }

\* No poll up to position i brought a failure status or a usable log.
NotReadyUpTo(receipts, i) ==
    \A j \in 1..i : receipts[j] \in {"absent", "nolog"}

\* C32: a poll that brings a success receipt without a usable log does not
\* end the call: while attempts are left the next poll follows, as after an
\* absent receipt, and when no poll of the call brings a failure status or a
\* usable log the call makes all TX_MAX_RETRIES polls and returns
\* confirmed = false.
C32_NoLogIsNotReady ==
    tx_out # NoTxOut
        => /\ \A i \in 1..TX_MAX_RETRIES :
                (tx_receipts[i] = "nolog" /\ NotReadyUpTo(tx_receipts, i))
                    => /\ tx_out.polls >= i
                       /\ i < TX_MAX_RETRIES
                            => /\ tx_out.polls > i
                               /\ tx_out.sleeps >= i
           /\ NotReadyUpTo(tx_receipts, TX_MAX_RETRIES)
                => /\ tx_out.polls = TX_MAX_RETRIES
                   /\ tx_out.sleeps = TX_MAX_RETRIES - 1
                   /\ tx_out.ret = <<None, None, FALSE>>
           /\ tx_out.ret[3] => ReceiptSeen(tx_receipts, tx_out.polls) = "log"

C32_Witness ==
    /\ tx_receipts[1] = "nolog"
    /\ tx_receipts[2] = "absent"
    /\ tx_receipts[TX_MAX_RETRIES] = "nolog"
    /\ NotReadyUpTo(tx_receipts, TX_MAX_RETRIES)
    /\ tx_out.polls = TX_MAX_RETRIES
    /\ ~tx_out.ret[3]

\* C33: a pass whose mint is confirmed and whose metadata is obtained, but
\* whose image conversion or media upload fails, still submits the success
\* reply, and its entry has status "processed".
C33_MediaIsOptional ==
    obs.mint = "no_media"
        => /\ obs.reply # None
           /\ replies[obs.id] > 0
           /\ obs.result = "processed"
           /\ obs.id \in DOMAIN memory.mentions
           /\ memory.mentions[obs.id].status = "processed"

\* C34: a start of the process that finds the state file unreadable begins
\* with an empty ledger and no checkpoint: is_processed is false for every
\* mention id and has_successful_mint finds nothing for any author and
\* address; a start that finds it readable begins with its contents.
C34_UnreadableFileResets ==
    [][ Start
          => /\ file.state = "corrupt"
                  => /\ DOMAIN memory'.mentions = {}
                     /\ memory'.last_tweet_id = 0
                     /\ \A t \in TweetIds : ~is_processed(memory', t)
                     /\ \A a \in Authors, addr \in Addresses :
                            has_successful_mint(memory', a, addr) = 0
             /\ file.state = "ok" => memory' = file.data ]_vars

\* C34 witness: the process has started on an unreadable file after an
\* earlier run had minted an asset for a mention and replied to it; the
\* ledger is empty and the next fetch returns that mention again.
C34_Witness ==
    /\ file.state = "corrupt"
    /\ pc = "idle"
    /\ memory = FreshMemory
    /\ \E t \in seen :
          /\ replies[t] > 0
          /\ \E addr \in LowerAddresses : chain[<<feed[t].author_id, addr>>] > 0
          /\ ~is_processed(memory, t)
          /\ InSeq(t, Mentions(memory.last_tweet_id, Len(feed)))


====
